---- MODULE Spec2Model ----
(***************************************************************************)
(* A model of promise-cacher: the PromiseCacher facade (get, set, delete,  *)
(* clear, consume, flush), the CacheTask state machine, the PromiseHolder  *)
(* slot and the limitTimeout race.                                         *)
(*                                                                         *)
(* Time is the integer `now` (Date.now()); it starts at 1 because the code *)
(* tests timestamps for truthiness.  A timestamp field holding 0 stands    *)
(* for `undefined`.  Values are strings, represented by their length;      *)
(* errors are negative numbers; 0 stands for "no value / pending".         *)
(*                                                                         *)
(* Scheduling: promise reactions registered by setPromiseHandle are the    *)
(* actions ThenCatch and Finally; the zero-delay release timer is the      *)
(* action ReleaseTimer.  Reactions and zero-delay timers run before the    *)
(* clock advances (Tick is disabled while one is pending).                 *)
(***************************************************************************)
EXTENDS Integers, Sequences, FiniteSets, TLC

\* ---- bounds -------------------------------------------------------------
\* the single-fingerprint specification (Spec)
MaxTasks == 2
MaxTime == 3
MaxUsed == 2
NumValues == 1

\* ---- configuration values the model runs with ---------------------------
\* cachePolicy.ttlMs, fetchingPolicy.timeoutMs, freeUpMemoryPolicy.maxMemoryBytes
TtlMs == 1
TimeoutCfg == 1
MaxMemoryBytes == 10485760

\* ---- program constants ---------------------------------------------------
ECMA_STRING == 2
OrderWeight == 1000

Values == 1..NumValues
FetchError == -1
TimeoutError == -2
Errors == {FetchError, TimeoutError}
Outcomes == Values \cup {FetchError}
NoTask == 0

VARIABLES
    taskMap,      \* PromiseCacher.taskMap: key -> task id (NoTask if absent)
    tasks,        \* every CacheTask ever constructed, by id (creation order)
    metrics,      \* PromiseCacher.performanceMetrics (the counters)
    timer,        \* the number of sweeper intervals armed
    now,          \* Date.now()
    config,       \* PromiseCacher.config
    scope         \* what the caller does in this run: the keys it uses and
                  \* how many tasks, reads and clock ticks it goes through

vars == <<taskMap, tasks, metrics, timer, now, config, scope>>

Keys == scope.keys

\* ---- configuration getters ----------------------------------------------
\* variant: a negative setting is used as it is
concurrency_Raw == config.concurrency

concurrency == IF config.concurrency < 0 THEN 0 ELSE config.concurrency

errorTaskPolicy == config.errorTaskPolicy

expirationStrategy == config.expirationStrategy

ttlMs == TtlMs

Min(a, b) == IF a < b THEN a ELSE b

\* 0 stands for `undefined` (no timeout configured)
timeoutMs == IF config.timeoutMs = 0 THEN 0 ELSE Min(ttlMs, config.timeoutMs)

maxMemoryMegaByte == config.maxMemoryBytes

\* config.minMemoryBytes = 0 stands for `undefined`.  The default is
\* maxMemoryBytes / 2, a fraction when the limit is odd; every byte count is
\* an integer, so comparing against the floor decides the same.
minMemoryByte ==
    IF config.minMemoryBytes > 0 /\ config.minMemoryBytes < config.maxMemoryBytes
    THEN config.minMemoryBytes
    ELSE config.maxMemoryBytes \div 2

\* freeUpMemoryPolicy.calcCacheScoreFn: "default" (none configured) or
\* "usedCount", the custom function (cacher, task) => task.usedCount
calcCacheScoreFn == config.calcCacheScoreFn

\* cacher.cacheMillisecond, which calcCacheScoreDefaultFn reads: PromiseCacher
\* has no such member, the read gives `undefined` (0 here)
cacheMillisecond == 0

\* ---- pure helpers ----------------------------------------------------------
\* sizeof of a string value of v characters
sizeof(v) == v * ECMA_STRING

\* An input the fingerprint function throws on: a function or a symbol, an
\* object nested deeper than 10 levels, or one the custom transform rejects.
BadInput == -1
\* the outcome of a fingerprint call that threw
KeyError == -3

\* transformCacheKey: the inputs of the model other than BadInput stand for
\* their own fingerprints
transformCacheKey(key) == IF key = BadInput THEN KeyError ELSE key

ZeroMetrics ==
    [usedCount |-> 0, totalFetchCount |-> 0, releasedMemoryBytes |-> 0,
     overMemoryLimitCount |-> 0, rejectedRequestsCount |-> 0,
     timeoutCount |-> 0, errorCount |-> 0]

\* The part of the cacher that a handler reads and writes, as one value.
Cur == [taskMap |-> taskMap, tasks |-> tasks, metrics |-> metrics, timer |-> timer]

Commit(s) ==
    /\ taskMap' = s.taskMap
    /\ tasks' = s.tasks
    /\ metrics' = s.metrics
    /\ timer' = s.timer

\* ---- CacheTask -----------------------------------------------------------
\* kind: "none" (no value supplied), "null" (the value null), "value", "error",
\* "future".  The constructor tests `_asyncOutput != undefined`, which is false
\* for null as well: a task built with null is built as with no value.
\* ---- PromiseHolder: the slot of a task -------------------------------------
\* The slot is the fields liberatedAt (when it was completed) and promise
\* (what its awaiters observe; Pending while the promise it was resolved with
\* has not settled).  resolve and reject return the task and whether they
\* raised.
Pending == 0

isLiberated(t) == t.liberatedAt # 0

\* variant: no guard; the native promise ignores a second completion
resolve_Unguarded(t, v) ==
    [t |-> [t EXCEPT !.liberatedAt = now,
                     !.promise = IF isLiberated(t) THEN @ ELSE v,
                     !.hpc = IF isLiberated(t) THEN @
                             ELSE IF v = Pending THEN 0 ELSE 1],
     raised |-> FALSE]

resolve(t, v) ==
    IF isLiberated(t) THEN [t |-> t, raised |-> TRUE]
    ELSE [t |-> [t EXCEPT !.liberatedAt = now,
                          !.promise = v,
                          !.hpc = IF v = Pending THEN 0 ELSE 1],
          raised |-> FALSE]

reject(t, e) ==
    IF isLiberated(t) THEN [t |-> t, raised |-> TRUE]
    ELSE [t |-> [t EXCEPT !.liberatedAt = now, !.promise = e, !.hpc = 1],
          raised |-> FALSE]

\* variant: a supplied future does not liberate the slot
NewCacheTask_FutureQueued(k, kind, v) ==
    [input |-> k,
     createdAt |-> now,
     lastAccessedAt |-> now,
     usedCount |-> 0,
     usedBytes |-> 0,
     resolvedAt |-> 0,
     liberatedAt |-> IF kind \in {"none", "null", "future"} THEN 0 ELSE now,
     taskError |-> 0,
     promise |-> IF kind \in {"value", "error"} THEN v ELSE 0,
     feed |-> "none",
     fetchSt |-> 0,
     hpc |-> IF kind \in {"value", "error"} THEN 1 ELSE 0,
     release |-> FALSE,
     errReads |-> 0,
     fetchCalls |-> 0]

\* the constructor: an Error rejects the slot, any other value that is not
\* null or undefined resolves it
NewCacheTask(k, kind, v) ==
    LET t == [input |-> k,
              createdAt |-> now,
              lastAccessedAt |-> now,
              usedCount |-> 0,
              usedBytes |-> 0,
              resolvedAt |-> 0,
              liberatedAt |-> 0,
              taskError |-> 0,
              promise |-> Pending,
              feed |-> "none",
              fetchSt |-> 0,
              hpc |-> 0,
              release |-> FALSE,
              errReads |-> 0,
              fetchCalls |-> 0]
    IN IF kind = "error" THEN reject(t, v).t
       ELSE IF kind = "value" THEN resolve(t, v).t
       ELSE IF kind = "future" THEN [resolve(t, Pending).t EXCEPT !.feed = "future"]
       ELSE t

order(t) == t.createdAt - t.usedCount * OrderWeight

run(t) ==
    IF isLiberated(t) THEN t
    ELSE [resolve(t, Pending).t EXCEPT !.feed = "fetch", !.fetchSt = 1,
                                       !.fetchCalls = @ + 1]

\* variant: the ttl boundary counted as expired
isExpired_AtTtl(t) ==
    IF expirationStrategy = "IDLE" /\ now - t.lastAccessedAt >= ttlMs THEN TRUE
    ELSE IF expirationStrategy = "EXPIRE" /\ t.resolvedAt # 0
                                         /\ now - t.resolvedAt >= ttlMs THEN TRUE
    ELSE FALSE

isExpired(t) ==
    IF expirationStrategy = "IDLE" /\ now - t.lastAccessedAt > ttlMs THEN TRUE
    ELSE IF expirationStrategy = "EXPIRE" /\ t.resolvedAt # 0
                                         /\ now - t.resolvedAt > ttlMs THEN TRUE
    ELSE FALSE

\* variant: a cached failure reports FAILED
status_CacheFailed(t) ==
    IF t.taskError # 0 THEN "FAILED"
    ELSE IF isExpired(t) THEN "EXPIRED"
    ELSE IF t.liberatedAt = 0 THEN "QUEUED"
    ELSE IF t.resolvedAt # 0 THEN "ACTIVE"
    ELSE "AWAIT"

status(t) ==
    IF t.taskError # 0 /\ errorTaskPolicy # "CACHE" THEN "FAILED"
    ELSE IF isExpired(t) THEN "EXPIRED"
    ELSE IF t.liberatedAt = 0 THEN "QUEUED"
    ELSE IF t.resolvedAt # 0 THEN "ACTIVE"
    ELSE "AWAIT"

\* variant: a read does not restart the idle window
output_NoTouch(t) ==
    [t EXCEPT !.usedCount = @ + 1,
              !.errReads = IF t.taskError # 0 THEN @ + 1 ELSE @]

\* output(): the reader is answered by a throw of taskError, or is handed the
\* holder's promise.
output(t) ==
    [t EXCEPT !.usedCount = @ + 1,
              !.lastAccessedAt = now,
              !.errReads = IF t.taskError # 0 THEN @ + 1 ELSE @]

\* ---- PromiseCacher ---------------------------------------------------------
TasksOf(s) == {s.taskMap[k] : k \in Keys} \ {NoTask}

\* variant: only the ACTIVE tasks are counted
usedMemoryBytesOf_Active(s) ==
    LET RECURSIVE Sum(_)
        Sum(S) == IF S = {} THEN 0
                  ELSE LET i == CHOOSE x \in S : TRUE
                       IN s.tasks[i].usedBytes + Sum(S \ {i})
    IN Sum({i \in TasksOf(s) : status(s.tasks[i]) = "ACTIVE"})

usedMemoryBytesOf(s) ==
    LET RECURSIVE Sum(_)
        Sum(S) == IF S = {} THEN 0
                  ELSE LET i == CHOOSE x \in S : TRUE
                       IN s.tasks[i].usedBytes + Sum(S \ {i})
    IN Sum(TasksOf(s))

\* variant: the bytes of the key's last task are released again when the key
\* is already absent
deleteByCacheKey_Stale(s, k) ==
    LET ids == {i \in DOMAIN s.tasks : s.tasks[i].input = k}
    IN IF ids = {} THEN s
       ELSE LET last == CHOOSE i \in ids : \A j \in ids : j <= i
            IN [s EXCEPT !.metrics.releasedMemoryBytes = @ + s.tasks[last].usedBytes,
                         !.taskMap[k] = NoTask]

\* variant: the released bytes are taken off the counter
deleteByCacheKey_Minus(s, k) ==
    IF s.taskMap[k] # NoTask
    THEN [s EXCEPT !.metrics.releasedMemoryBytes =
                        @ - s.tasks[s.taskMap[k]].usedBytes,
                   !.taskMap[k] = NoTask]
    ELSE s

deleteByCacheKey(s, k) ==
    IF s.taskMap[k] # NoTask
    THEN [s EXCEPT !.metrics.releasedMemoryBytes =
                        @ + s.tasks[s.taskMap[k]].usedBytes,
                   !.taskMap[k] = NoTask]
    ELSE s

QueuedIds(s) == {i \in TasksOf(s) : status(s.tasks[i]) = "QUEUED"}

AwaitIds(s) == {i \in TasksOf(s) : status(s.tasks[i]) = "AWAIT"}

\* position of i in the stable sort of the queued tasks by order; the store
\* iterates in insertion order, which is the order of the task ids
SortsBefore(s, i, j) ==
    \/ order(s.tasks[i]) < order(s.tasks[j])
    \/ order(s.tasks[i]) = order(s.tasks[j]) /\ i < j

Rank(s, i) == Cardinality({j \in QueuedIds(s) : SortsBefore(s, j, i)})

\* variant: the slots are not reduced by the tasks already running
tasksToRun_AllSlots(s) ==
    IF QueuedIds(s) = {} THEN {}
    ELSE IF concurrency = 0 THEN QueuedIds(s)
    ELSE {i \in QueuedIds(s) : Rank(s, i) < concurrency}

tasksToRun(s) ==
    IF QueuedIds(s) = {} THEN {}
    ELSE IF concurrency = 0 THEN QueuedIds(s)
    ELSE LET availableSlots == concurrency - Cardinality(AwaitIds(s))
         IN IF availableSlots <= 0 THEN {}
            ELSE {i \in QueuedIds(s) : Rank(s, i) < availableSlots}

consume(s) ==
    LET toRun == tasksToRun(s)
    IN [s EXCEPT !.tasks = [i \in DOMAIN s.tasks |->
                               IF i \in toRun THEN run(s.tasks[i]) ELSE s.tasks[i]]]

\* setTimer: an interval is armed unless this.timer holds one
setTimer(s) == IF s.timer > 0 THEN s ELSE [s EXCEPT !.timer = @ + 1]

\* stopTimer: the interval this.timer holds is cleared
stopTimer(s) == IF s.timer > 0 THEN [s EXCEPT !.timer = @ - 1] ELSE s

set(s, k, kind, v) ==
    LET taskKey == transformCacheKey(k)
        s1 == deleteByCacheKey(s, taskKey)
        id == Len(s1.tasks) + 1
        s2 == [s1 EXCEPT !.tasks = Append(@, NewCacheTask(k, kind, v)),
                         !.taskMap[taskKey] = id]
        s3 == consume(s2)
    IN IF taskKey = KeyError THEN s ELSE setTimer(s3)

\* variant: the force flag is ignored
needsNewTask_NoForce(s, k, forceUpdate) ==
    \/ s.taskMap[k] = NoTask
    \/ status(s.tasks[s.taskMap[k]]) = "EXPIRED"

\* variant: a resolved entry is fetched again
needsNewTask_Resolved(s, k, forceUpdate) ==
    \/ forceUpdate
    \/ s.taskMap[k] = NoTask
    \/ status(s.tasks[s.taskMap[k]]) \in {"EXPIRED", "ACTIVE"}

\* variant: a failed entry is fetched again
needsNewTask_Retry(s, k, forceUpdate) ==
    \/ forceUpdate
    \/ s.taskMap[k] = NoTask
    \/ status(s.tasks[s.taskMap[k]]) = "EXPIRED"
    \/ s.tasks[s.taskMap[k]].taskError # 0

\* variant: an entry still running is fetched again
needsNewTask_Pending(s, k, forceUpdate) ==
    \/ forceUpdate
    \/ s.taskMap[k] = NoTask
    \/ status(s.tasks[s.taskMap[k]]) \in {"EXPIRED", "AWAIT"}

needsNewTask(s, k, forceUpdate) ==
    \/ forceUpdate
    \/ s.taskMap[k] = NoTask
    \/ status(s.tasks[s.taskMap[k]]) = "EXPIRED"

\* variant: the fingerprint is computed before the read is counted
get_KeyFirst(s, k, forceUpdate) ==
    LET taskKey == transformCacheKey(k)
        s1 == [s EXCEPT !.metrics.usedCount = @ + 1]
        isNewTask == needsNewTask(s1, taskKey, forceUpdate)
        s2 == IF isNewTask THEN set(s1, k, "none", 0) ELSE s1
        s3 == IF isNewTask THEN [s2 EXCEPT !.metrics.totalFetchCount = @ + 1] ELSE s2
        id == s3.taskMap[taskKey]
    IN IF taskKey = KeyError THEN s ELSE [s3 EXCEPT !.tasks[id] = output(@)]

\* get: the read is counted, then the fingerprint is computed; a throw there
\* ends the call
get(s, k, forceUpdate) ==
    LET s1 == [s EXCEPT !.metrics.usedCount = @ + 1]
        taskKey == transformCacheKey(k)
        isNewTask == needsNewTask(s1, taskKey, forceUpdate)
        s2 == IF isNewTask THEN set(s1, k, "none", 0) ELSE s1
        s3 == IF isNewTask THEN [s2 EXCEPT !.metrics.totalFetchCount = @ + 1] ELSE s2
        id == s3.taskMap[taskKey]
    IN IF taskKey = KeyError THEN s1 ELSE [s3 EXCEPT !.tasks[id] = output(@)]

\* ---- a fetch function that reads the cacher --------------------------------
\* fetchFn is the caller's code.  An async fetch function runs synchronously
\* up to its first await, so one that begins with `await cacher.get(dep)` makes
\* that call inside run(), before the slot is liberated.  scope.fetchFn says
\* what the fetch function of key 1 does before it returns: nothing ("plain"),
\* a get of key 2 ("reads", FetchReads) or a throw ("throws", FetchThrows); the
\* other fetch functions return at once.  The operators below follow run, consume, set and
\* get statement by statement with that call in place, and return the store
\* together with whether the call raised.
NoKey == 0

FetchReads(k) == IF scope.fetchFn = "reads" /\ k = 1 THEN 2 ELSE NoKey

\* the fetch function of key 1 throws before it returns a promise
FetchThrows(k) == scope.fetchFn = "throws" /\ k = 1

RECURSIVE NestedRun(_, _)
RECURSIVE NestedEach(_, _, _)
RECURSIVE NestedSet(_, _)
RECURSIVE NestedGet(_, _, _)

\* variant: the slot is liberated before the fetch function is called
NestedRun_LiberateFirst(s, i) ==
    IF isLiberated(s.tasks[i]) THEN [s |-> s, raised |-> FALSE]
    ELSE LET dep == FetchReads(s.tasks[i].input)
             s1 == [s EXCEPT !.tasks[i].liberatedAt = now,
                             !.tasks[i].fetchCalls = @ + 1]
             s2 == IF dep = NoKey THEN s1 ELSE NestedGet(s1, dep, FALSE).s
         IN IF FetchThrows(s.tasks[i].input) THEN [s |-> s1, raised |-> TRUE]
            ELSE [s |-> [s2 EXCEPT !.tasks[i].feed = "fetch",
                                   !.tasks[i].fetchSt = 1],
                  raised |-> FALSE]

\* run: the liberation guard, the fetch function (with its synchronous get),
\* then resolve on the slot, which throws if the slot was liberated meanwhile
NestedRun(s, i) ==
    IF isLiberated(s.tasks[i]) THEN [s |-> s, raised |-> FALSE]
    ELSE LET dep == FetchReads(s.tasks[i].input)
             s1 == [s EXCEPT !.tasks[i].fetchCalls = @ + 1]
             s2 == IF dep = NoKey THEN s1 ELSE NestedGet(s1, dep, FALSE).s
             r == resolve(s2.tasks[i], Pending)
         IN IF FetchThrows(s.tasks[i].input) THEN [s |-> s1, raised |-> TRUE]
            ELSE IF r.raised THEN [s |-> s2, raised |-> TRUE]
            ELSE [s |-> [s2 EXCEPT !.tasks[i] =
                            [r.t EXCEPT !.feed = "fetch", !.fetchSt = 1]],
                  raised |-> FALSE]

\* forEach over the tasks chosen when consume was entered, in sorted order; a
\* throw ends the loop
NestedEach(s, todo, base) ==
    IF todo = {} THEN [s |-> s, raised |-> FALSE]
    ELSE LET i == CHOOSE x \in todo : \A y \in todo : Rank(base, x) <= Rank(base, y)
             r == NestedRun(s, i)
         IN IF r.raised THEN r ELSE NestedEach(r.s, todo \ {i}, base)

NestedConsume(s) == NestedEach(s, tasksToRun(s), s)

\* set(key) without a value: a throw of consume skips setTimer
NestedSet(s, k) ==
    LET s1 == deleteByCacheKey(s, k)
        id == Len(s1.tasks) + 1
        s2 == [s1 EXCEPT !.tasks = Append(@, NewCacheTask(k, "none", 0)),
                         !.taskMap[k] = id]
        r == NestedConsume(s2)
    IN IF transformCacheKey(k) = KeyError THEN [s |-> s, raised |-> TRUE]
       ELSE IF r.raised THEN r
       ELSE [s |-> setTimer(r.s), raised |-> FALSE]

\* get: a throw of set ends the call before the fetch is counted and before
\* the task is read; the promise get returns is then rejected
NestedGet(s, k, forceUpdate) ==
    LET s1 == [s EXCEPT !.metrics.usedCount = @ + 1]
        isNewTask == needsNewTask(s1, k, forceUpdate)
        r == IF isNewTask THEN NestedSet(s1, k) ELSE [s |-> s1, raised |-> FALSE]
        s3 == IF isNewTask THEN [r.s EXCEPT !.metrics.totalFetchCount = @ + 1]
              ELSE r.s
        id == s3.taskMap[k]
    IN IF transformCacheKey(k) = KeyError THEN [s |-> s1, raised |-> TRUE]
       ELSE IF r.raised THEN r
       ELSE [s |-> [s3 EXCEPT !.tasks[id] = output(@)], raised |-> FALSE]

\* delete: a throw of the fingerprint ends the call
delete(s, k) ==
    LET taskKey == transformCacheKey(k)
    IN IF taskKey = KeyError THEN s ELSE deleteByCacheKey(s, taskKey)

\* has: TRUE / FALSE, or the fingerprint's throw
has(s, k) ==
    LET taskKey == transformCacheKey(k)
    IN IF taskKey = KeyError THEN "throw"
       ELSE IF s.taskMap[taskKey] # NoTask THEN "true" ELSE "false"

\* variant: the sweeper takes the expired tasks out of the map itself
cleanupExpiredTasks_Uncounted(s) ==
    [s EXCEPT !.taskMap = [k \in Keys |->
                              IF s.taskMap[k] # NoTask
                                 /\ status(s.tasks[s.taskMap[k]]) = "EXPIRED"
                              THEN NoTask ELSE s.taskMap[k]]]

cleanupExpiredTasks(s) ==
    LET expired == {k \in Keys : s.taskMap[k] # NoTask
                                 /\ status(s.tasks[s.taskMap[k]]) = "EXPIRED"}
        RECURSIVE Del(_, _)
        Del(st, K) == IF K = {} THEN st
                      ELSE LET k == CHOOSE x \in K : TRUE
                           IN Del(deleteByCacheKey(st, k), K \ {k})
    IN Del(s, expired)

\* variant: only the zero limit triggers the memory pass
shouldCleanupMemory_ZeroOnly(s) ==
    maxMemoryMegaByte = 0 /\ usedMemoryBytesOf(s) > 0

shouldCleanupMemory(s) ==
    \/ usedMemoryBytesOf(s) > maxMemoryMegaByte
    \/ maxMemoryMegaByte = 0 /\ usedMemoryBytesOf(s) > 0

getActiveTasks(s) == {i \in TasksOf(s) : status(s.tasks[i]) \in {"ACTIVE", "FAILED"}}

\* calcCacheScoreDefaultFn(cacher, task), as a fraction num / den of positive
\* integers, or NaN:
\*   usedBytes = max(task.usedBytes, 1)
\*   timeScore = (now * 2 - createdAt - lastAccessedAt) / 2 / window,
\*               1 when that is 0
\*   score     = usedCount * 1024 / usedBytes / timeScore
\* With `window` undefined (0) timeScore is NaN and so is the score.
calcCacheScoreDefaultFn(t, window) ==
    LET usedBytes == IF t.usedBytes > 1 THEN t.usedBytes ELSE 1
        age == now * 2 - t.createdAt - t.lastAccessedAt
    IN IF window = 0 THEN [nan |-> TRUE, num |-> 0, den |-> 1]
       ELSE IF age = 0
            THEN [nan |-> FALSE, num |-> t.usedCount * 1024, den |-> usedBytes]
            ELSE [nan |-> FALSE, num |-> t.usedCount * 1024 * 2 * window,
                                 den |-> usedBytes * age]

score(t) ==
    IF calcCacheScoreFn = "default"
    THEN calcCacheScoreDefaultFn(t, cacheMillisecond)
    ELSE [nan |-> FALSE, num |-> t.usedCount, den |-> 1]

\* x < y on scores; every comparison with NaN is false
ScoreLess(x, y) == ~x.nan /\ ~y.nan /\ x.num * y.den < y.num * x.den

\* sort((a, b) => a.score - b.score): a NaN difference orders nothing, and the
\* sort is stable, so ties keep the store's insertion order (the task ids)
ScoredBefore(s, i, j) ==
    \/ ScoreLess(score(s.tasks[i]), score(s.tasks[j]))
    \/ ~ScoreLess(score(s.tasks[j]), score(s.tasks[i])) /\ i < j

\* variant: the pass stops after its first eviction
flushMemory_Once(s, memoryToBeReleasedBytes) ==
    LET S == getActiveTasks(s)
    IN IF S = {} THEN s
       ELSE LET i == CHOOSE x \in S : \A y \in S \ {x} : ScoredBefore(s, x, y)
            IN deleteByCacheKey(s, s.tasks[i].input)

flushMemory(s, memoryToBeReleasedBytes) ==
    LET RECURSIVE Release(_, _, _)
        Release(st, S, releasedBytes) ==
            IF S = {} THEN st
            ELSE LET i == CHOOSE x \in S : \A y \in S \ {x} : ScoredBefore(s, x, y)
                     r == releasedBytes + st.tasks[i].usedBytes
                     st1 == deleteByCacheKey(st, st.tasks[i].input)
                 IN IF r >= memoryToBeReleasedBytes THEN st1
                    ELSE Release(st1, S \ {i}, r)
    IN Release(s, getActiveTasks(s), 0)

flush(s) ==
    LET s1 == cleanupExpiredTasks(s)
    IN IF shouldCleanupMemory(s1)
       THEN flushMemory([s1 EXCEPT !.metrics.overMemoryLimitCount = @ + 1],
                        usedMemoryBytesOf(s1) - minMemoryByte)
       ELSE s1

\* ---- actions -------------------------------------------------------------
CanCreate == Len(tasks) < scope.maxTasks

Get(k, forceUpdate) ==
    /\ IF transformCacheKey(k) = KeyError
       THEN metrics.usedCount < scope.maxUsed
       ELSE IF needsNewTask(Cur, k, forceUpdate)
            THEN CanCreate
            ELSE tasks[taskMap[k]].usedCount < scope.maxUsed
    /\ Commit(get(Cur, k, forceUpdate))
    /\ UNCHANGED <<now, config, scope>>

Set(k, kind, v) ==
    /\ transformCacheKey(k) = KeyError \/ CanCreate
    /\ Commit(set(Cur, k, kind, v))
    /\ UNCHANGED <<now, config, scope>>

Delete(k) ==
    /\ Commit(delete(Cur, k))
    /\ UNCHANGED <<now, config, scope>>

\* has(k) answers or throws; it writes nothing
Has(k) ==
    /\ has(Cur, k) \in {"true", "false", "throw"}
    /\ UNCHANGED vars

\* variant: the entries go, the metrics stay
Clear_KeepMetrics ==
    /\ taskMap' = [k \in Keys |-> NoTask]
    /\ timer' = stopTimer(Cur).timer
    /\ UNCHANGED <<tasks, metrics, now, config, scope>>

Clear ==
    /\ taskMap' = [k \in Keys |-> NoTask]
    /\ metrics' = ZeroMetrics
    /\ timer' = stopTimer(Cur).timer
    /\ UNCHANGED <<tasks, now, config, scope>>

\* the interval timer's callback: it runs when no promise reaction is pending
Flush ==
    /\ timer > 0
    /\ \A i \in DOMAIN tasks : tasks[i].hpc \notin {1, 2}
    /\ Commit(flush(Cur))
    /\ UNCHANGED <<now, config, scope>>

\* variant: the settlement reaches every unsettled task of the fingerprint
FetchSettle_ByKey(i, o) ==
    /\ tasks[i].fetchSt = 1
    /\ tasks' = [j \in DOMAIN tasks |->
                    IF j = i
                    THEN IF tasks[i].promise = 0
                         THEN [tasks[i] EXCEPT !.fetchSt = 2, !.promise = o, !.hpc = 1]
                         ELSE [tasks[i] EXCEPT !.fetchSt = 2]
                    ELSE IF tasks[j].input = tasks[i].input /\ tasks[j].promise = 0
                                                            /\ tasks[j].fetchSt = 1
                         THEN [tasks[j] EXCEPT !.promise = o, !.hpc = 1]
                         ELSE tasks[j]]
    /\ UNCHANGED <<taskMap, metrics, timer, now, config, scope>>

\* variant: the fetch's settlement overwrites a holder already settled
FetchSettle_Late(i, o) ==
    /\ tasks[i].fetchSt = 1
    /\ tasks' = [tasks EXCEPT ![i] =
                    [tasks[i] EXCEPT !.fetchSt = 2, !.promise = o, !.hpc = 1]]
    /\ UNCHANGED <<taskMap, metrics, timer, now, config, scope>>

\* the user fetch invoked by run() settles with outcome o
FetchSettle(i, o) ==
    /\ tasks[i].fetchSt = 1
    /\ tasks' = [tasks EXCEPT ![i] =
                    IF tasks[i].promise = 0
                    THEN [tasks[i] EXCEPT !.fetchSt = 2, !.promise = o, !.hpc = 1]
                    ELSE [tasks[i] EXCEPT !.fetchSt = 2]]
    /\ UNCHANGED <<taskMap, metrics, timer, now, config, scope>>

\* the future handed to set() settles with outcome o
FutureSettle(i, o) ==
    /\ tasks[i].feed = "future"
    /\ tasks[i].promise = 0
    /\ tasks' = [tasks EXCEPT ![i] = [tasks[i] EXCEPT !.promise = o, !.hpc = 1]]
    /\ UNCHANGED <<taskMap, metrics, timer, now, config, scope>>

\* variant: the timer's error is passed on as a value instead of thrown
TimeoutFire_Value(i) ==
    /\ timeoutMs > 0
    /\ tasks[i].feed = "fetch"
    /\ tasks[i].promise = 0
    /\ now - tasks[i].liberatedAt >= timeoutMs
    /\ tasks' = [tasks EXCEPT ![i] = [tasks[i] EXCEPT !.promise = 1, !.hpc = 1]]
    /\ UNCHANGED <<taskMap, metrics, timer, now, config, scope>>

\* limitTimeout: the delay timer wins the race
TimeoutFire(i) ==
    /\ timeoutMs > 0
    /\ tasks[i].feed = "fetch"
    /\ tasks[i].promise = 0
    /\ now - tasks[i].liberatedAt >= timeoutMs
    /\ tasks' = [tasks EXCEPT ![i] =
                    [tasks[i] EXCEPT !.promise = TimeoutError, !.hpc = 1]]
    /\ UNCHANGED <<taskMap, metrics, timer, now, config, scope>>

\* variant: the rejection handler schedules no release
ThenCatch_NoRelease(i) ==
    /\ tasks[i].hpc = 1
    /\ tasks' = [tasks EXCEPT ![i] =
                    IF tasks[i].promise > 0
                    THEN [tasks[i] EXCEPT !.usedBytes = sizeof(tasks[i].promise),
                                          !.hpc = 2]
                    ELSE [tasks[i] EXCEPT !.taskError = tasks[i].promise,
                                          !.hpc = 2]]
    /\ UNCHANGED <<taskMap, metrics, timer, now, config, scope>>

\* setPromiseHandle: the .then / .catch reactions
ThenCatch(i) ==
    /\ tasks[i].hpc = 1
    /\ tasks' = [tasks EXCEPT ![i] =
                    IF tasks[i].promise > 0
                    THEN [tasks[i] EXCEPT !.usedBytes = sizeof(tasks[i].promise),
                                          !.hpc = 2]
                    ELSE [tasks[i] EXCEPT !.taskError = tasks[i].promise,
                                          !.release = (errorTaskPolicy # "CACHE"),
                                          !.hpc = 2]]
    /\ UNCHANGED <<taskMap, metrics, timer, now, config, scope>>

\* setPromiseHandle: the .finally reaction
Finally(i) ==
    /\ tasks[i].hpc = 2
    /\ Commit(consume([Cur EXCEPT !.tasks[i] =
                          [tasks[i] EXCEPT !.resolvedAt = now, !.hpc = 3]]))
    /\ UNCHANGED <<now, config, scope>>

\* setTimeout(() => this.release(), 0): a timer callback, so it runs after the
\* reactions of the settlement that scheduled it
ReleaseTimer(i) ==
    /\ tasks[i].release
    /\ tasks[i].hpc = 3
    /\ Commit(deleteByCacheKey([Cur EXCEPT !.tasks[i].release = FALSE],
                               tasks[i].input))
    /\ UNCHANGED <<now, config, scope>>

ReactionPending == \E i \in DOMAIN tasks : tasks[i].hpc \in {1, 2} \/ tasks[i].release

Tick ==
    /\ now < scope.maxTime
    /\ ~ReactionPending
    /\ now' = now + 1
    /\ UNCHANGED <<taskMap, tasks, metrics, timer, config, scope>>

InitWith(sc, cfgs) ==
    /\ scope = sc
    /\ config \in cfgs
    /\ taskMap = [k \in sc.keys |-> NoTask]
    /\ tasks = <<>>
    /\ metrics = ZeroMetrics
    /\ timer = 1
    /\ now = 1

\* ---- Spec: one fingerprint, every operation -----------------------------
Init ==
    InitWith([keys |-> {1}, maxTasks |-> MaxTasks, maxTime |-> MaxTime,
              maxUsed |-> MaxUsed, fetchFn |-> "plain"],
             [concurrency : {0},
              errorTaskPolicy : {"CACHE", "IGNORE"},
              expirationStrategy : {"EXPIRE"},
              timeoutMs : {TimeoutCfg},
              maxMemoryBytes : {MaxMemoryBytes},
              minMemoryBytes : {0},
              calcCacheScoreFn : {"default"}])

Next ==
    \/ \E k \in Keys, f \in BOOLEAN : Get(k, f)
    \/ \E k \in Keys : Set(k, "none", 0)
    \/ \E k \in Keys : Set(k, "null", 0)
    \/ \E k \in Keys, v \in Values : Set(k, "value", v)
    \/ \E k \in Keys : Set(k, "error", FetchError)
    \/ \E k \in Keys : Set(k, "future", 0)
    \/ \E k \in Keys : Delete(k)
    \/ Clear
    \/ Flush
    \/ \E i \in DOMAIN tasks, o \in Outcomes : FetchSettle(i, o)
    \/ \E i \in DOMAIN tasks, o \in Outcomes : FutureSettle(i, o)
    \/ \E i \in DOMAIN tasks : TimeoutFire(i)
    \/ \E i \in DOMAIN tasks : ThenCatch(i)
    \/ \E i \in DOMAIN tasks : Finally(i)
    \/ \E i \in DOMAIN tasks : ReleaseTimer(i)
    \/ Tick

Spec == Init /\ [][Next]_vars

\* ---- SpecFifo: three fingerprints behind a cap of 1, reads only ----------
FifoMaxTasks == 3
FifoMaxUsed == 2

InitFifo ==
    InitWith([keys |-> {1, 2, 3}, maxTasks |-> FifoMaxTasks, maxTime |-> 1,
              maxUsed |-> FifoMaxUsed, fetchFn |-> "plain"],
             [concurrency : {1},
              errorTaskPolicy : {"CACHE"},
              expirationStrategy : {"EXPIRE"},
              timeoutMs : {0},
              maxMemoryBytes : {MaxMemoryBytes},
              minMemoryBytes : {0},
              calcCacheScoreFn : {"default"}])

NextFifo ==
    \/ \E k \in Keys : Get(k, FALSE)
    \/ \E i \in DOMAIN tasks, o \in Outcomes : FetchSettle(i, o)
    \/ \E i \in DOMAIN tasks : ThenCatch(i)
    \/ \E i \in DOMAIN tasks : Finally(i)

SpecFifo == InitFifo /\ [][NextFifo]_vars

\* ---- SpecIdle: idle expiration behind a cap of 1, reads and the sweeper ---
IdleMaxTasks == 3
IdleMaxTime == 3
IdleMaxUsed == 1

InitIdle ==
    InitWith([keys |-> {1, 2}, maxTasks |-> IdleMaxTasks, maxTime |-> IdleMaxTime,
              maxUsed |-> IdleMaxUsed, fetchFn |-> "plain"],
             [concurrency : {1},
              errorTaskPolicy : {"CACHE"},
              expirationStrategy : {"IDLE"},
              timeoutMs : {0},
              maxMemoryBytes : {MaxMemoryBytes},
              minMemoryBytes : {0},
              calcCacheScoreFn : {"default"}])

NextIdle ==
    \/ \E k \in Keys : Get(k, FALSE)
    \/ Flush
    \/ \E i \in DOMAIN tasks, o \in Outcomes : FetchSettle(i, o)
    \/ \E i \in DOMAIN tasks : ThenCatch(i)
    \/ \E i \in DOMAIN tasks : Finally(i)
    \/ Tick

SpecIdle == InitIdle /\ [][NextIdle]_vars

\* ---- SpecTouch: one fingerprint read again and again under IDLE ----------
TouchMaxTasks == 2
TouchMaxTime == 5
TouchMaxUsed == 3

InitTouch ==
    InitWith([keys |-> {1}, maxTasks |-> TouchMaxTasks, maxTime |-> TouchMaxTime,
              maxUsed |-> TouchMaxUsed, fetchFn |-> "plain"],
             [concurrency : {0, 1},
              errorTaskPolicy : {"CACHE"},
              expirationStrategy : {"IDLE"},
              timeoutMs : {0},
              maxMemoryBytes : {MaxMemoryBytes},
              minMemoryBytes : {0},
              calcCacheScoreFn : {"default"}])

NextTouch ==
    \/ \E k \in Keys : Get(k, FALSE)
    \/ Flush
    \/ \E i \in DOMAIN tasks, o \in Outcomes : FetchSettle(i, o)
    \/ \E i \in DOMAIN tasks : ThenCatch(i)
    \/ \E i \in DOMAIN tasks : Finally(i)
    \/ Tick

SpecTouch == InitTouch /\ [][NextTouch]_vars

\* ---- SpecCap: two fingerprints, caps 1 and 2, reads and writes ------------
\* Every fetch and future succeeds: a failure has no part in admission.
CapMaxTasks == 3
CapMaxUsed == 1

InitCap ==
    InitWith([keys |-> {1, 2}, maxTasks |-> CapMaxTasks, maxTime |-> 1,
              maxUsed |-> CapMaxUsed, fetchFn |-> "plain"],
             [concurrency : {1, 2},
              errorTaskPolicy : {"CACHE"},
              expirationStrategy : {"EXPIRE"},
              timeoutMs : {0},
              maxMemoryBytes : {MaxMemoryBytes},
              minMemoryBytes : {0},
              calcCacheScoreFn : {"default"}])

NextCap ==
    \/ \E k \in Keys, f \in BOOLEAN : Get(k, f)
    \/ \E k \in Keys : Set(k, "none", 0)
    \/ \E k \in Keys, v \in Values : Set(k, "value", v)
    \/ \E k \in Keys : Set(k, "future", 0)
    \/ \E k \in Keys : Delete(k)
    \/ \E i \in DOMAIN tasks, o \in Values : FetchSettle(i, o)
    \/ \E i \in DOMAIN tasks, o \in Values : FutureSettle(i, o)
    \/ \E i \in DOMAIN tasks : ThenCatch(i)
    \/ \E i \in DOMAIN tasks : Finally(i)

SpecCap == InitCap /\ [][NextCap]_vars

\* ---- FairSpec: one fingerprint, errors released (IGNORE) ------------------
\* Promise reactions and zero-delay timers always get to run.
FairMaxTasks == 2
FairMaxUsed == 2

InitFair ==
    InitWith([keys |-> {1}, maxTasks |-> FairMaxTasks, maxTime |-> 1,
              maxUsed |-> FairMaxUsed, fetchFn |-> "plain"],
             [concurrency : {0},
              errorTaskPolicy : {"IGNORE"},
              expirationStrategy : {"EXPIRE"},
              timeoutMs : {0},
              maxMemoryBytes : {MaxMemoryBytes},
              minMemoryBytes : {0},
              calcCacheScoreFn : {"default"}])

NextFair ==
    \/ \E k \in Keys, f \in BOOLEAN : Get(k, f)
    \/ \E k \in Keys : Set(k, "none", 0)
    \/ \E k \in Keys, v \in Values : Set(k, "value", v)
    \/ \E k \in Keys : Set(k, "error", FetchError)
    \/ \E k \in Keys : Set(k, "future", 0)
    \/ \E k \in Keys : Delete(k)
    \/ \E i \in DOMAIN tasks, o \in Outcomes : FetchSettle(i, o)
    \/ \E i \in DOMAIN tasks, o \in Outcomes : FutureSettle(i, o)
    \/ \E i \in DOMAIN tasks : ThenCatch(i)
    \/ \E i \in DOMAIN tasks : Finally(i)
    \/ \E i \in DOMAIN tasks : ReleaseTimer(i)

FairSpec ==
    /\ InitFair
    /\ [][NextFair]_vars
    /\ \A i \in 1..FairMaxTasks :
          /\ WF_vars(i \in DOMAIN tasks /\ ThenCatch(i))
          /\ WF_vars(i \in DOMAIN tasks /\ Finally(i))
          /\ WF_vars(i \in DOMAIN tasks /\ ReleaseTimer(i))

\* ---- SpecKey: one fingerprint and an input that has none ------------------
KeyMaxTasks == 2
KeyMaxUsed == 2

Inputs == Keys \cup {BadInput}

InitKey ==
    InitWith([keys |-> {1}, maxTasks |-> KeyMaxTasks, maxTime |-> 1,
              maxUsed |-> KeyMaxUsed, fetchFn |-> "plain"],
             [concurrency : {0},
              errorTaskPolicy : {"CACHE", "IGNORE"},
              expirationStrategy : {"EXPIRE"},
              timeoutMs : {0},
              maxMemoryBytes : {MaxMemoryBytes},
              minMemoryBytes : {0},
              calcCacheScoreFn : {"default"}])

NextKey ==
    \/ \E k \in Inputs, f \in BOOLEAN : Get(k, f)
    \/ \E k \in Inputs : Set(k, "none", 0)
    \/ \E k \in Inputs, v \in Values : Set(k, "value", v)
    \/ \E k \in Inputs : Delete(k)
    \/ \E k \in Inputs : Has(k)
    \/ \E i \in DOMAIN tasks, o \in Outcomes : FetchSettle(i, o)
    \/ \E i \in DOMAIN tasks : ThenCatch(i)
    \/ \E i \in DOMAIN tasks : Finally(i)
    \/ \E i \in DOMAIN tasks : ReleaseTimer(i)

SpecKey == InitKey /\ [][NextKey]_vars

\* ---- SpecBurst: plain reads of two fingerprints, unlimited admission ------
BurstMaxTasks == 3
BurstMaxUsed == 3

InitBurst ==
    InitWith([keys |-> {1, 2}, maxTasks |-> BurstMaxTasks, maxTime |-> 1,
              maxUsed |-> BurstMaxUsed, fetchFn |-> "plain"],
             [concurrency : {0},
              errorTaskPolicy : {"CACHE", "IGNORE"},
              expirationStrategy : {"EXPIRE", "IDLE"},
              timeoutMs : {0},
              maxMemoryBytes : {MaxMemoryBytes},
              minMemoryBytes : {0},
              calcCacheScoreFn : {"default"}])

NextBurst ==
    \/ \E k \in Keys : Get(k, FALSE)
    \/ \E i \in DOMAIN tasks, o \in Outcomes : FetchSettle(i, o)
    \/ \E i \in DOMAIN tasks : ThenCatch(i)
    \/ \E i \in DOMAIN tasks : Finally(i)
    \/ \E i \in DOMAIN tasks : ReleaseTimer(i)

SpecBurst == InitBurst /\ [][NextBurst]_vars

\* ---- SpecOpen: no admission limit, set to zero or to a negative number ----
OpenMaxTasks == 3
OpenMaxUsed == 1
OpenDepth == 1

InitOpen ==
    InitWith([keys |-> {1, 2}, maxTasks |-> OpenMaxTasks, maxTime |-> 1,
              maxUsed |-> OpenMaxUsed, fetchFn |-> "plain"],
             [concurrency : (0 - OpenDepth)..0,
              errorTaskPolicy : {"IGNORE"},
              expirationStrategy : {"EXPIRE"},
              timeoutMs : {0},
              maxMemoryBytes : {MaxMemoryBytes},
              minMemoryBytes : {0},
              calcCacheScoreFn : {"default"}])

NextOpen ==
    \/ \E k \in Keys, f \in BOOLEAN : Get(k, f)
    \/ \E k \in Keys : Set(k, "none", 0)
    \/ \E i \in DOMAIN tasks, o \in Outcomes : FetchSettle(i, o)
    \/ \E i \in DOMAIN tasks : ThenCatch(i)
    \/ \E i \in DOMAIN tasks : Finally(i)
    \/ \E i \in DOMAIN tasks : ReleaseTimer(i)

SpecOpen == InitOpen /\ [][NextOpen]_vars

\* ---- SpecNest: the fetch function of key 1 reads key 2 ---------------------
\* Two fingerprints, an unlimited cacher and one with a single slot, no
\* timeout, a clock of two readings.
NestMaxTasks == 2
NestMaxTime == 2
NestMaxUsed == 2

WithinScope(s) ==
    /\ Len(s.tasks) <= scope.maxTasks
    /\ \A i \in DOMAIN s.tasks : /\ s.tasks[i].usedCount <= scope.maxUsed
                                 /\ s.tasks[i].fetchCalls <= scope.maxUsed
    /\ s.metrics.usedCount <= scope.maxUsed + scope.maxTasks

GetNested(k, forceUpdate) ==
    LET r == NestedGet(Cur, k, forceUpdate)
    IN /\ WithinScope(r.s)
       /\ Commit(r.s)
       /\ UNCHANGED <<now, config, scope>>

\* the .finally reaction: a throw of consume leaves resolvedAt set
FinallyNested(i) ==
    LET r == NestedConsume([Cur EXCEPT !.tasks[i] =
                               [tasks[i] EXCEPT !.resolvedAt = now, !.hpc = 3]])
    IN /\ tasks[i].hpc = 2
       /\ WithinScope(r.s)
       /\ Commit(r.s)
       /\ UNCHANGED <<now, config, scope>>

InitNest ==
    InitWith([keys |-> {1, 2}, maxTasks |-> NestMaxTasks, maxTime |-> NestMaxTime,
              maxUsed |-> NestMaxUsed, fetchFn |-> "reads"],
             [concurrency : {0, 1},
              errorTaskPolicy : {"IGNORE"},
              expirationStrategy : {"EXPIRE"},
              timeoutMs : {0},
              maxMemoryBytes : {MaxMemoryBytes},
              minMemoryBytes : {0},
              calcCacheScoreFn : {"default"}])

NextNest ==
    \/ \E k \in Keys, f \in BOOLEAN : GetNested(k, f)
    \/ \E i \in DOMAIN tasks, o \in Outcomes : FetchSettle(i, o)
    \/ \E i \in DOMAIN tasks : ThenCatch(i)
    \/ \E i \in DOMAIN tasks : FinallyNested(i)
    \/ \E i \in DOMAIN tasks : ReleaseTimer(i)
    \/ Tick

SpecNest == InitNest /\ [][NextNest]_vars

\* ---- SpecThrow: the fetch function of key 1 throws -------------------------
\* Two fingerprints and an input without one, an unlimited cacher and one with
\* a single slot, both error policies, a timeout of one tick.
ThrowMaxTasks == 2
ThrowMaxTime == 2
ThrowMaxUsed == 2

InitThrow ==
    InitWith([keys |-> {1, 2}, maxTasks |-> ThrowMaxTasks, maxTime |-> ThrowMaxTime,
              maxUsed |-> ThrowMaxUsed, fetchFn |-> "throws"],
             [concurrency : {0, 1},
              errorTaskPolicy : {"CACHE", "IGNORE"},
              expirationStrategy : {"EXPIRE"},
              timeoutMs : {TimeoutCfg},
              maxMemoryBytes : {MaxMemoryBytes},
              minMemoryBytes : {0},
              calcCacheScoreFn : {"default"}])

NextThrow ==
    \/ \E k \in Inputs, f \in BOOLEAN : GetNested(k, f)
    \/ \E i \in DOMAIN tasks, o \in Outcomes : FetchSettle(i, o)
    \/ \E i \in DOMAIN tasks : TimeoutFire(i)
    \/ \E i \in DOMAIN tasks : ThenCatch(i)
    \/ \E i \in DOMAIN tasks : FinallyNested(i)
    \/ \E i \in DOMAIN tasks : ReleaseTimer(i)
    \/ Clear
    \/ Tick

SpecThrow == InitThrow /\ [][NextThrow]_vars

\* ---- SpecMem: two fingerprints under a memory limit ----------------------
\* Values of 1 and 2 characters (2 and 4 bytes) against limits of 0 and 5
\* bytes, with the default low-water mark and with a configured one.  The
\* clock stands still: nothing expires.
MemMaxTasks == 2
MemMaxUsed == 2
MemNumValues == 2
MemLimit == 5
MemLowWater == 3

InitMem ==
    InitWith([keys |-> {1, 2}, maxTasks |-> MemMaxTasks, maxTime |-> 1,
              maxUsed |-> MemMaxUsed, fetchFn |-> "plain"],
             [concurrency : {0},
              errorTaskPolicy : {"CACHE"},
              expirationStrategy : {"EXPIRE"},
              timeoutMs : {0},
              maxMemoryBytes : {0, MemLimit},
              minMemoryBytes : {0, MemLowWater},
              calcCacheScoreFn : {"default", "usedCount"}])

NextMem ==
    \/ \E k \in Keys : Get(k, FALSE)
    \/ \E k \in Keys, v \in 1..MemNumValues : Set(k, "value", v)
    \/ \E k \in Keys : Delete(k)
    \/ Clear
    \/ Flush
    \/ \E i \in DOMAIN tasks, o \in (1..MemNumValues) \cup {FetchError} : FetchSettle(i, o)
    \/ \E i \in DOMAIN tasks : ThenCatch(i)
    \/ \E i \in DOMAIN tasks : Finally(i)

SpecMem == InitMem /\ [][NextMem]_vars

\* ---- helpers for the properties ------------------------------------------
InStore(i) == \E k \in Keys : taskMap[k] = i

\* readers of task t that were handed the holder's promise
followers(t) == t.usedCount - t.errReads

\* a fetch of task i is started by this step
FetchStarts(i) ==
    /\ i \in DOMAIN tasks'
    /\ tasks'[i].fetchSt = 1
    /\ (i \in DOMAIN tasks => tasks[i].fetchSt = 0)

NoFetchStarts == \A i \in DOMAIN tasks' : ~FetchStarts(i)

\* ---- C2 ------------------------------------------------------------------
\* C2: any two readers of one task observe the same outcome.  A reader is
\* answered either by a throw of the task's captured error or by the holder's
\* promise; the captured error is the holder's rejection, and neither the
\* holder's outcome nor the captured error changes once set, so a reader that
\* came before the settlement and one that came after it see the same thing.
C2_OutcomeAgrees ==
    \A i \in DOMAIN tasks :
        tasks[i].taskError # 0 => tasks[i].taskError = tasks[i].promise

C2_OutcomeStable ==
    \A i \in DOMAIN tasks :
        /\ tasks[i].promise # 0 => tasks'[i].promise = tasks[i].promise
        /\ tasks[i].taskError # 0 => tasks'[i].taskError = tasks[i].taskError

C2_SameOutcome == [](C2_OutcomeAgrees) /\ [][C2_OutcomeStable]_vars

\* a task read once through its promise and once by a throw, both readers
\* holding the same error
C2_Witness ==
    \E i \in DOMAIN tasks :
        /\ tasks[i].errReads >= 1
        /\ followers(tasks[i]) >= 1
        /\ tasks[i].promise = tasks[i].taskError

\* ---- C3 ------------------------------------------------------------------
ValidEntry(k) ==
    /\ taskMap[k] # NoTask
    /\ tasks[taskMap[k]].promise \in Values
    /\ tasks[taskMap[k]].resolvedAt # 0
    /\ expirationStrategy = "EXPIRE" => now - tasks[taskMap[k]].resolvedAt <= ttlMs
    /\ expirationStrategy = "IDLE" => now - tasks[taskMap[k]].lastAccessedAt <= ttlMs

\* the get is answered from the entry the store already holds: same task, no
\* task constructed, no fetch started, the reader handed the holder's promise
AnsweredByEntry(k) ==
    /\ taskMap'[k] = taskMap[k]
    /\ Len(tasks') = Len(tasks)
    /\ NoFetchStarts
    /\ tasks'[taskMap[k]].promise = tasks[taskMap[k]].promise
    /\ tasks'[taskMap[k]].usedCount = tasks[taskMap[k]].usedCount + 1

\* C3: get(k) without force on a resolved, non-expired entry returns the
\* entry's value and invokes no fetch.
C3_ValidHit ==
    [][\A k \in Keys :
          (ValidEntry(k) /\ Get(k, FALSE)) =>
              /\ AnsweredByEntry(k)
              /\ tasks'[taskMap[k]].errReads = tasks[taskMap[k]].errReads]_vars

\* an entry read again after the clock moved past its resolution
C3_Witness ==
    \E k \in Keys :
        /\ ValidEntry(k)
        /\ tasks[taskMap[k]].lastAccessedAt > tasks[taskMap[k]].resolvedAt
        /\ tasks[taskMap[k]].fetchSt = 2

\* ---- C7 ------------------------------------------------------------------
CachedFailure(k) ==
    /\ errorTaskPolicy = "CACHE"
    /\ taskMap[k] # NoTask
    /\ tasks[taskMap[k]].promise \in Errors
    /\ ~isExpired(tasks[taskMap[k]])

\* the reader is answered with the task's error: by a throw of the captured
\* error, or by the holder's promise, which is rejected with it
AnsweredWithError(k) ==
    LET t == tasks[taskMap[k]]
        u == tasks'[taskMap[k]]
    IN IF t.taskError # 0
       THEN u.errReads = t.errReads + 1 /\ t.taskError = t.promise
       ELSE u.errReads = t.errReads /\ u.promise \in Errors

\* C7: under CACHE a rejected entry answers every later get(k) with its error
\* and no fetch, for as long as the store holds it unexpired.
C7_ErrorCached ==
    [][\A k \in Keys :
          (CachedFailure(k) /\ Get(k, FALSE)) =>
              AnsweredByEntry(k) /\ AnsweredWithError(k)]_vars

\* a failed fetch whose error was thrown to a later reader
C7_Witness ==
    \E k \in Keys :
        /\ CachedFailure(k)
        /\ tasks[taskMap[k]].fetchSt = 2
        /\ tasks[taskMap[k]].promise = FetchError
        /\ tasks[taskMap[k]].errReads >= 1

\* ---- C9 ------------------------------------------------------------------
TimedOut(t) == t.promise = TimeoutError

C9_TimedOutStaysFailed ==
    \A i \in DOMAIN tasks :
        TimedOut(tasks[i]) =>
            /\ tasks[i].usedBytes = 0
            /\ tasks[i].taskError \in {0, TimeoutError}
            /\ tasks[i].errReads > 0 => tasks[i].taskError = TimeoutError

C9_Step ==
    \A i \in DOMAIN tasks :
        \* a holder that settles while its fetch is still running was rejected
        \* with the timeout error
        /\ (tasks[i].promise = 0 /\ tasks'[i].promise # 0 /\ tasks'[i].fetchSt = 1)
              => (timeoutMs > 0 /\ TimedOut(tasks'[i]))
        \* the later settlement of the fetch changes neither the task nor the store
        /\ (TimedOut(tasks[i]) /\ tasks[i].fetchSt = 1 /\ tasks'[i].fetchSt = 2)
              => (tasks' = [tasks EXCEPT ![i].fetchSt = 2] /\ taskMap' = taskMap)
        \* and the outcome stays
        /\ TimedOut(tasks[i]) => TimedOut(tasks'[i])

\* C9: a fetch cut off by the timeout rejects its task with the timeout error
\* for every reader, and the fetch's later settlement changes nothing.
C9_Timeout == [](C9_TimedOutStaysFailed) /\ [][C9_Step]_vars

\* a timed-out task whose fetch settled afterwards, read before and after
C9_Witness ==
    \E i \in DOMAIN tasks :
        /\ TimedOut(tasks[i])
        /\ tasks[i].fetchSt = 2
        /\ tasks[i].errReads >= 1
        /\ followers(tasks[i]) >= 1

\* ---- C10 -----------------------------------------------------------------
PastTtl(t) == t.resolvedAt # 0 /\ now - t.resolvedAt > ttlMs

C10_ExpiredExactly ==
    expirationStrategy = "EXPIRE" =>
        \A i \in DOMAIN tasks : isExpired(tasks[i]) <=> PastTtl(tasks[i])

\* the get replaced the entry by a fresh task that goes through the fetch
\* function, and the reader awaits that task
Refetched(k) ==
    /\ taskMap'[k] = Len(tasks) + 1
    /\ Len(tasks') = Len(tasks) + 1
    /\ tasks'[taskMap'[k]].promise = 0
    /\ tasks'[taskMap'[k]].usedCount = 1
    /\ tasks'[taskMap'[k]].errReads = 0
    /\ tasks'[taskMap'[k]].feed # "future"
    /\ (concurrency = 0 => FetchStarts(taskMap'[k]))

C10_Step ==
    \A k \in Keys :
        (/\ expirationStrategy = "EXPIRE"
         /\ taskMap[k] # NoTask
         /\ PastTtl(tasks[taskMap[k]])
         /\ Get(k, FALSE)) => Refetched(k)

InFlight(k) == {i \in DOMAIN tasks : tasks[i].input = k /\ tasks[i].fetchSt = 1}

\* C1: for every fingerprint at most one invocation of the fetch function is
\* in flight (started and not yet settled) at every instant.
C1_SingleFlight == \A k \in Keys : Cardinality(InFlight(k)) <= 1

\* ---- C4 ------------------------------------------------------------------
AdmittedIds == {i \in AwaitIds(Cur) : tasks[i].feed = "fetch"}

\* C4 as stated: with a cap above 0 the number of tasks of the store in status
\* RUNNING (AWAIT) is at most the cap at every instant.
C4_RunningWithinCap ==
    concurrency > 0 => Cardinality(AwaitIds(Cur)) <= concurrency

C4_AdmittedWithinCap ==
    concurrency > 0 => Cardinality(AdmittedIds) <= concurrency

C4_Step ==
    (concurrency > 0 /\ \E i \in DOMAIN tasks' : FetchStarts(i)) =>
        Cardinality(AwaitIds([Cur EXCEPT !.taskMap = taskMap', !.tasks = tasks']))
            <= concurrency

\* C4, amended: with a cap above 0 the number of RUNNING tasks of the store
\* whose fetch the scheduler started is at most the cap at every instant, and
\* the scheduler starts a fetch only when this leaves at most cap tasks
\* RUNNING; a task installed by set with a value or a future is RUNNING without
\* admission and is not held back by the cap.
C4_SchedulerWithinCap == [](C4_AdmittedWithinCap) /\ [][C4_Step]_vars

\* the cap is reached by a fetch the scheduler started, and a task waits
C4_Witness ==
    /\ concurrency > 0
    /\ Cardinality(AdmittedIds) = concurrency
    /\ QueuedIds(Cur) # {}

\* ---- C5 ------------------------------------------------------------------
\* task a sits in the store after the step with its fetch never started
LeftQueued(a) ==
    /\ \E k \in Keys : taskMap'[k] = a
    /\ tasks'[a].liberatedAt = 0

\* C5: queued tasks are admitted in creation order (ids are handed out in
\* creation order): no step starts task b while a task created before it is
\* left queued, and two tasks started by one scheduler call start in creation
\* order, whatever the number of their readers.
C5_Fifo ==
    [][\A b \in DOMAIN tasks' :
          FetchStarts(b) =>
              \A a \in 1..(b - 1) :
                  /\ ~LeftQueued(a)
                  /\ (FetchStarts(a) /\ b \in DOMAIN tasks) => SortsBefore(Cur, a, b)]_vars

\* ---- C6 ------------------------------------------------------------------
\* nothing is running and no reaction or timer is pending: from here only a
\* further call of the caller, the sweeper or the clock can take a step
Quiescent ==
    \A i \in DOMAIN tasks :
        /\ tasks[i].fetchSt # 1
        /\ ~(tasks[i].feed = "future" /\ tasks[i].promise = 0)
        /\ tasks[i].hpc \notin {1, 2}
        /\ ~tasks[i].release

\* C6: every task installed in the store without a supplied value is
\* eventually admitted when every running fetch settles.  On a finite run: the
\* cacher never comes to rest, every fetch settled and every reaction run, with
\* a never-started task still in the store.
C6_Admitted ==
    Quiescent => \A i \in DOMAIN tasks : InStore(i) => tasks[i].liberatedAt # 0

\* ---- C8 ------------------------------------------------------------------
RejectedInStore(i) ==
    /\ i \in DOMAIN tasks
    /\ tasks[i].promise \in Errors
    /\ InStore(i)

Released(i) ==
    /\ i \in DOMAIN tasks
    /\ taskMap[tasks[i].input] = NoTask

C8_ReadersGetError ==
    \A i \in DOMAIN tasks :
        (tasks[i].promise \in Errors /\ tasks[i].errReads > 0) =>
            tasks[i].taskError = tasks[i].promise

C8_Step ==
    \A k \in Keys :
        (RejectedInStore(taskMap[k]) /\ Get(k, FALSE)) =>
            AnsweredByEntry(k) /\ AnsweredWithError(k)

\* C8: under IGNORE every reader of a rejected task receives its error, and
\* the rejected task leaves the store with no further call: has(k) becomes
\* false.
C8_IgnoreReleases ==
    /\ [](C8_ReadersGetError)
    /\ [][C8_Step]_vars
    /\ \A i \in 1..FairMaxTasks : RejectedInStore(i) ~> Released(i)

\* a failed fetch, read through its promise and by a throw, released by its
\* own timer
C8_Witness ==
    \E i \in DOMAIN tasks :
        /\ errorTaskPolicy = "IGNORE"
        /\ tasks[i].promise = FetchError
        /\ tasks[i].fetchSt = 2
        /\ tasks[i].taskError = FetchError
        /\ tasks[i].errReads >= 1
        /\ followers(tasks[i]) >= 1
        /\ tasks[i].hpc = 3
        /\ ~tasks[i].release
        /\ taskMap[tasks[i].input] = NoTask
        /\ metrics.releasedMemoryBytes = 0
        /\ \A j \in DOMAIN tasks : j = i

\* ---- C11 -----------------------------------------------------------------
IdleEntry(k) == expirationStrategy = "IDLE" /\ taskMap[k] # NoTask

\* time since the entry of k was last read
IdleFor(k) == now - tasks[taskMap[k]].lastAccessedAt

C11_Step ==
    \A k \in Keys :
        IdleEntry(k) =>
            \* a read restarts the window; it refetches exactly when the entry
            \* went unread for longer than ttlMs
            /\ Get(k, FALSE) =>
                  /\ tasks'[taskMap'[k]].lastAccessedAt = now
                  /\ IF IdleFor(k) > ttlMs
                     THEN Refetched(k)
                     ELSE /\ taskMap'[k] = taskMap[k]
                          /\ Len(tasks') = Len(tasks)
                          /\ NoFetchStarts
            \* and nothing else takes an entry away inside its window
            /\ taskMap'[k] # taskMap[k] => IdleFor(k) > ttlMs

\* C11: under IDLE every read of an entry restarts its idle window: a get
\* within ttlMs of the last read is answered by the entry, which no step
\* removes in the meantime, and the first get after more than ttlMs without a
\* read refetches.
C11_IdleWindow == [][C11_Step]_vars

\* an entry kept for longer than ttlMs by its reads, then refetched after it
\* went unread for longer than ttlMs
C11_Witness ==
    /\ expirationStrategy = "IDLE"
    /\ Len(tasks) = 2
    /\ taskMap[tasks[2].input] = 2
    /\ tasks[1].input = tasks[2].input
    /\ tasks[1].usedCount = 3
    /\ tasks[1].lastAccessedAt - tasks[1].createdAt > ttlMs
    /\ tasks[2].createdAt - tasks[1].lastAccessedAt > ttlMs
    /\ tasks[2].usedCount = 1

\* ---- C12 -----------------------------------------------------------------
\* a task fed by the fetch function settles only through its own fetch or
\* through the timeout on it
OwnOutcome ==
    \A i \in DOMAIN tasks :
        (tasks[i].promise = 0 /\ tasks'[i].promise # 0 /\ tasks'[i].feed = "fetch") =>
            /\ tasks[i].fetchSt = 1
            /\ tasks'[i].fetchSt = 2 \/ tasks'[i].promise = TimeoutError

Prepopulated(k) ==
    /\ taskMap'[k] = Len(tasks) + 1
    /\ Len(tasks') = Len(tasks) + 1
    /\ tasks'[taskMap'[k]].liberatedAt # 0
    /\ NoFetchStarts

\* the unexpired entry of k holds a value supplied to set
SetEntry(k) ==
    /\ taskMap[k] # NoTask
    /\ tasks[taskMap[k]].feed = "none"
    /\ tasks[taskMap[k]].promise \in Values
    /\ ~isExpired(tasks[taskMap[k]])

\* C13: for every key k and value v, set(k, v) followed by get(k) before
\* expiry yields v and does not invoke the fetch function for k.  The values
\* are the strings and null.
C13_SetThenGet ==
    [][\A k \in Keys :
          /\ \A v \in Values :
                Set(k, "value", v) => Prepopulated(k) /\ tasks'[taskMap'[k]].promise = v
          /\ Set(k, "null", 0) => Prepopulated(k)
          /\ (SetEntry(k) /\ Get(k, FALSE)) =>
                /\ AnsweredByEntry(k)
                /\ tasks'[taskMap[k]].errReads = tasks[taskMap[k]].errReads]_vars

\* ---- C14 -----------------------------------------------------------------
C14_SecondDelete ==
    \A k \in Keys :
        LET s1 == deleteByCacheKey(Cur, k)
        IN /\ s1.taskMap[k] = NoTask
           /\ deleteByCacheKey(s1, k) = s1

C14_Step ==
    \A k \in Keys : (taskMap[k] = NoTask /\ Delete(k)) => UNCHANGED vars

\* C14: delete is idempotent: a second delete(k) right after delete(k) leaves
\* the store and every counter, the released bytes included, as the first one
\* left them, and a delete of an absent key changes nothing.
C14_DeleteIdempotent == [](C14_SecondDelete) /\ [][C14_Step]_vars

\* delete removed an unexpired entry that held bytes: its key is absent and a
\* further delete finds nothing
C14_Witness ==
    \E i \in DOMAIN tasks :
        /\ Len(tasks) = 1
        /\ errorTaskPolicy = "CACHE"
        /\ tasks[i].usedBytes > 0
        /\ tasks[i].resolvedAt = now
        /\ taskMap[tasks[i].input] = NoTask
        /\ metrics.releasedMemoryBytes = tasks[i].usedBytes

\* ---- C15 -----------------------------------------------------------------
\* the counters statistics() reports: total reads, fetch count, eviction count,
\* rejected count, released bytes, error count, timeout count
Counters ==
    {"usedCount", "totalFetchCount", "overMemoryLimitCount", "rejectedRequestsCount",
     "releasedMemoryBytes", "errorCount", "timeoutCount"}

\* C15: right after clear() the store holds no entry and every monotone
\* counter reads zero, also when fetches were in flight.
C15_ClearResets ==
    [][Clear => /\ \A k \in Keys : taskMap'[k] = NoTask
                /\ \A c \in Counters : metrics'[c] = 0]_vars

\* cleared while a fetch that a get had started was still in flight
C15_Witness ==
    /\ timer = 0
    /\ \A k \in Keys : taskMap[k] = NoTask
    /\ \A c \in Counters : metrics[c] = 0
    /\ \E i \in DOMAIN tasks : tasks[i].fetchSt = 1 /\ tasks[i].usedCount >= 1

\* ---- C16 -----------------------------------------------------------------
\* C16: no monotone counter decreases from one instant to the next unless the
\* step between them is a clear().
C16_Monotone ==
    [][(\E c \in Counters : metrics'[c] < metrics[c]) => Clear]_vars

\* reads, fetches, an eviction pass and released bytes all counted
C16_Witness ==
    /\ metrics.usedCount >= 2
    /\ metrics.totalFetchCount >= 1
    /\ metrics.overMemoryLimitCount >= 1
    /\ metrics.releasedMemoryBytes > 0

\* ---- C17 -----------------------------------------------------------------
\* the sum of the byte estimates of the tasks in S
BytesOf(S) ==
    LET RECURSIVE Sum(_)
        Sum(T) == IF T = {} THEN 0
                  ELSE LET i == CHOOSE x \in T : TRUE
                       IN tasks[i].usedBytes + Sum(T \ {i})
    IN Sum(S)

\* the size of what the tasks in S resolved with, for those whose resolution
\* handler has run
ResolvedBytesOf(S) ==
    LET RECURSIVE Sum(_)
        Sum(T) == IF T = {} THEN 0
                  ELSE LET i == CHOOSE x \in T : TRUE
                       IN (IF tasks[i].promise > 0 /\ tasks[i].hpc >= 2
                           THEN sizeof(tasks[i].promise) ELSE 0) + Sum(T \ {i})
    IN Sum(S)

StatusIn(S) == {i \in TasksOf(Cur) : status(tasks[i]) \in S}

\* between two turns of the event loop: no promise reaction is pending
Settled == \A i \in DOMAIN tasks : tasks[i].hpc \notin {1, 2}

\* C17 as stated, read at the instants between two turns of the event loop:
\* the reported memory usage equals the sum of the byte estimates of the
\* ACTIVE tasks.
C17_ActiveBytes ==
    Settled => usedMemoryBytesOf(Cur) = BytesOf(StatusIn({"ACTIVE"}))

\* C17, amended: at every instant the reported usage is the sum of the byte
\* estimates of all the tasks in the store, each task counting the size of its
\* value from the moment its resolution handler ran; between two turns of the
\* event loop these are the ACTIVE tasks together with the EXPIRED tasks not
\* yet removed.
C17_StoreBytes ==
    /\ usedMemoryBytesOf(Cur) = ResolvedBytesOf(TasksOf(Cur))
    /\ Settled => usedMemoryBytesOf(Cur) = BytesOf(StatusIn({"ACTIVE", "EXPIRED"}))

\* an expired entry still in the store, its bytes still reported
C17_Witness ==
    /\ Settled
    /\ usedMemoryBytesOf(Cur) > 0
    /\ StatusIn({"ACTIVE"}) = {}
    /\ StatusIn({"EXPIRED"}) # {}

\* ---- C18 -----------------------------------------------------------------
\* the sweeper can fire: its timer is armed and no promise reaction is pending
SweeperDue == timer > 0 /\ Settled

\* a sweeper fire in this state leaves in the store no task whose status now
\* is one of S
Sweeps(S) ==
    SweeperDue => \A i \in StatusIn(S) : flush(Cur).taskMap[tasks[i].input] # i

\* the half of C18 about expired tasks
ExpiredSwept == Sweeps({"EXPIRED"})

\* C18 as stated: each sweeper fire removes from the store every task whose
\* status at that moment is EXPIRED, and every task whose status is FAILED
\* while error caching is off.
C18_SweeperRemoves ==
    Sweeps({"EXPIRED"}) /\ (errorTaskPolicy # "CACHE" => Sweeps({"FAILED"}))

\* ---- C19 -----------------------------------------------------------------
\* the sweeper can fire and its pass finds the store over the memory limit
OverLimit == SweeperDue /\ shouldCleanupMemory(cleanupExpiredTasks(Cur))

\* C19: whenever a sweeper pass finds the total bytes above maxMemoryBytes (or
\* maxMemoryBytes = 0 and some bytes in use), the pass counts one eviction
\* trigger and deletes tasks until the reported usage is at most the low-water
\* mark.
C19_BelowLowWater ==
    OverLimit =>
        /\ usedMemoryBytesOf(flush(Cur)) <= minMemoryByte
        /\ flush(Cur).metrics.overMemoryLimitCount = metrics.overMemoryLimitCount + 1

\* a pass over a positive limit that must evict both entries to come down to
\* the low-water mark
C19_Witness ==
    /\ OverLimit
    /\ maxMemoryMegaByte > 0
    /\ Cardinality(TasksOf(Cur)) = 2
    /\ TasksOf(flush(Cur)) = {}
    /\ \E i \in TasksOf(Cur) : usedMemoryBytesOf(Cur) - tasks[i].usedBytes > minMemoryByte

\* a pass that stops with an entry left: usage was brought down, not to zero
C19_Partial ==
    /\ OverLimit
    /\ TasksOf(flush(Cur)) # {}
    /\ usedMemoryBytesOf(flush(Cur)) > 0

\* ---- C20 -----------------------------------------------------------------
\* the entries the memory pass may evict, and those it does evict
Evictable == getActiveTasks(cleanupExpiredTasks(Cur))
Evicted == {i \in Evictable : flush(Cur).taskMap[tasks[i].input] # i}

\* the score of a task at this pass: the custom function when one is
\* configured, else the default formula over the configured time to live
DocumentedScore(t) ==
    IF calcCacheScoreFn = "default" THEN calcCacheScoreDefaultFn(t, ttlMs)
    ELSE score(t)

\* on the numbers the code's sort compares: the pass evicts nothing while an
\* evictable entry with a strictly lower computed score survives
ComputedOrder ==
    OverLimit => \A e \in Evicted : \A v \in Evictable \ Evicted :
                     ~ScoreLess(score(tasks[v]), score(tasks[e]))

\* C20 as stated: the memory pass evicts in ascending score order: no entry is
\* evicted by a pass while an evictable entry with a strictly lower score at
\* that pass survives it.
C20_AscendingScore ==
    OverLimit => \A e \in Evicted : \A v \in Evictable \ Evicted :
                     ~ScoreLess(DocumentedScore(tasks[v]), DocumentedScore(tasks[e]))

\* ---- C21 -----------------------------------------------------------------
\* the tasks a sweeper fire in this state removes that are not expired: the
\* memory pass's evictions
Removed ==
    {i \in TasksOf(cleanupExpiredTasks(Cur)) : flush(Cur).taskMap[tasks[i].input] # i}

\* the tasks the store holds after a sweeper fire in this state are all
\* QUEUED or RUNNING
OnlyPending ==
    /\ TasksOf(flush(Cur)) # {}
    /\ \A i \in TasksOf(flush(Cur)) : status(tasks[i]) \in {"QUEUED", "AWAIT"}

\* C21: after any sweeper pass, the reported usage is at most
\* max(maxMemoryBytes, 0), or the pass evicted at least one entry, unless only
\* QUEUED / RUNNING tasks remain in the store.
C21_Progress ==
    SweeperDue =>
        \/ usedMemoryBytesOf(flush(Cur)) <= (IF maxMemoryMegaByte > 0
                                             THEN maxMemoryMegaByte ELSE 0)
        \/ Removed # {}
        \/ OnlyPending

\* a pass over a positive limit that evicts one entry and keeps the other
C21_Witness ==
    /\ OverLimit
    /\ maxMemoryMegaByte = MemLimit
    /\ Removed # {}
    /\ TasksOf(flush(Cur)) # {}
    /\ usedMemoryBytesOf(flush(Cur)) \in 1..MemLimit

\* ---- C22 -----------------------------------------------------------------
\* the tasks of the store not yet admitted, or admitted with their slot not
\* yet settled
PendingIds == {i \in TasksOf(Cur) : tasks[i].promise = 0}

\* a sweeper fire in this state removes no pending task
PendingKept ==
    SweeperDue => \A i \in PendingIds : flush(Cur).taskMap[tasks[i].input] = i

\* the claim under the EXPIRE strategy
PendingKeptExpire == expirationStrategy = "EXPIRE" => PendingKept

\* C22 as stated: no sweeper pass, under either expiration strategy, removes a
\* task that has not yet been admitted or whose fetch has not yet settled.
C22_SweeperSparesPending == PendingKept

\* ---- C23 -----------------------------------------------------------------
\* what each operation leaves when its input cannot be fingerprinted
BadSet(kind, v) == set(Cur, BadInput, kind, v)
BadDelete == delete(Cur, BadInput)

\* the operations that compute the fingerprint first
BadInputOthers ==
    /\ \A v \in Values : BadSet("value", v) = Cur
    /\ BadSet("none", 0) = Cur
    /\ BadDelete = Cur
    /\ has(Cur, BadInput) = "throw"

\* C23 as stated: when fingerprinting the input fails in get, set, has or
\* delete, no state is mutated: the store contents and every metric counter
\* are the same as before the call.
C23_BadInputNoMutation ==
    /\ [](BadInputOthers)
    /\ [][(\E f \in BOOLEAN : Get(BadInput, f))
              => UNCHANGED <<taskMap, tasks, metrics, timer>>]_vars

\* ---- C24 -----------------------------------------------------------------
\* statistics(): the requests, the misses and the hits it reports
totalRequests == metrics.usedCount
totalFetches == metrics.totalFetchCount
cacheHits == totalRequests - totalFetches

\* the reads made so far are concurrent: no task built so far has settled
Concurrent ==
    /\ tasks # <<>>
    /\ \A i \in DOMAIN tasks : tasks[i].promise = 0

\* the number of reads handed the slot of one of the tasks of S
ReadsOf(S) ==
    LET RECURSIVE Sum(_)
        Sum(T) == IF T = {} THEN 0
                  ELSE LET i == CHOOSE x \in T : TRUE
                       IN tasks[i].usedCount + Sum(T \ {i})
    IN Sum(S)

\* C24: N concurrent get(k) on a fingerprint with no entry, without force and
\* with unlimited admission, invoke the fetch function once and are all handed
\* that fetch's slot; the statistics count 1 miss and N - 1 hits.  Stated for
\* the fingerprints read so far together: one task and one started fetch per
\* fingerprint, every read handed the slot of its fingerprint's task, one miss
\* per fingerprint and a hit for every other read.
C24_Burst ==
    Concurrent =>
        /\ \A i, j \in DOMAIN tasks : tasks[i].input = tasks[j].input => i = j
        /\ \A i \in DOMAIN tasks : tasks[i].fetchSt = 1 /\ taskMap[tasks[i].input] = i
        /\ totalRequests = ReadsOf(DOMAIN tasks)
        /\ totalFetches = Len(tasks)
        /\ cacheHits = ReadsOf(DOMAIN tasks) - Len(tasks)

\* three concurrent reads of one fingerprint: 1 miss, 2 hits
C24_Witness ==
    /\ Concurrent
    /\ Len(tasks) = 1
    /\ tasks[1].usedCount = BurstMaxUsed
    /\ totalFetches = 1
    /\ cacheHits = BurstMaxUsed - 1

\* ---- C25 -----------------------------------------------------------------
\* statistics().health.timeouts
timeouts == metrics.timeoutCount

\* the tasks of the store whose fetch was cut off by the timeout; they were
\* all built since the last clear, which empties the store
TimedOutIds == {i \in TasksOf(Cur) : tasks[i].taskError = TimeoutError}

\* C25 as stated, in what it implies between two turns of the event loop:
\* each fetch cut off by the timeout has been counted, so the reported count is
\* at least the number of timed-out tasks the store holds.
C25_TimeoutsCounted == Settled => timeouts >= Cardinality(TimedOutIds)

\* ---- C26 -----------------------------------------------------------------
\* the tasks of the store whose fetch is running
RunningIds == {i \in TasksOf(Cur) : tasks[i].fetchSt = 1}

\* C26: when the configured concurrency is 0 or negative, the scheduler call
\* that follows a task's creation admits it, however many tasks are running:
\* no task is left unstarted, and the scheduler's limit for a negative setting
\* is that of 0.
C26_AdmitAll ==
    config.concurrency <= 0 =>
        /\ tasksToRun(Cur) = QueuedIds(Cur)
        /\ \A i \in DOMAIN tasks : isLiberated(tasks[i]) /\ tasks[i].fetchSt >= 1

\* a negative setting with a task admitted while two fetches were running
C26_Witness ==
    /\ config.concurrency < 0
    /\ Cardinality({i \in DOMAIN tasks : tasks[i].fetchSt = 1}) = OpenMaxTasks
    /\ Cardinality(RunningIds) = 2

\* ---- C27 -----------------------------------------------------------------
\* the clock reading at which task i settled (now, while its reactions run)
SettledAt(i) == IF tasks[i].resolvedAt # 0 THEN tasks[i].resolvedAt ELSE now

\* task i left the store before it settled: the store holds nothing for its
\* fingerprint, or a task built before i settled
DetachedRunning(i) ==
    LET j == taskMap[tasks[i].input]
    IN /\ j # i
       /\ j = NoTask \/ tasks[j].createdAt < SettledAt(i)

\* a step of task i's completion: its fetch settles or is timed out, its
\* reactions run, its release timer fires
Completion(i) ==
    \/ \E o \in Outcomes : FetchSettle(i, o)
    \/ TimeoutFire(i)
    \/ ThenCatch(i)
    \/ Finally(i)
    \/ ReleaseTimer(i)

\* C27 as stated: when a task's fingerprint is deleted or replaced while the
\* task is running, its completion neither inserts, replaces nor removes the
\* entry the store holds for that fingerprint.
C27_DetachedDiscarded ==
    [][\A i \in DOMAIN tasks :
           DetachedRunning(i) /\ Completion(i) => taskMap' = taskMap]_vars

\* the same without the release timer: settlement and reactions only
DetachedReactions ==
    [][\A i \in DOMAIN tasks :
           DetachedRunning(i) /\ Completion(i) /\ ~ReleaseTimer(i)
               => taskMap' = taskMap]_vars

\* ---- C28 -----------------------------------------------------------------
\* the tasks some get() was handed the slot of
ReadIds == {i \in DOMAIN tasks : tasks[i].usedCount > 0}

\* C28 as stated: provided every invocation of the fetch function settles,
\* every promise returned by get() settles, also when its task was deleted,
\* replaced or cleared while still QUEUED.  On a finite run: the cacher never
\* comes to rest, every fetch settled and every reaction run, with a task that
\* was read and whose slot is not settled.
C28_ReadersSettle ==
    Quiescent => \A i \in ReadIds : tasks[i].promise # 0

\* ---- C29 -----------------------------------------------------------------
\* the invocations of the fetch function started and not yet settled, of tasks
\* in the store or not
OpenFetches == {i \in DOMAIN tasks : tasks[i].fetchSt = 1}

\* C29 as stated: with a cap above 0 the number of fetch invocations started
\* and not yet settled never exceeds the cap, the invocations of tasks since
\* deleted, replaced, cleared, timed out or expired included.
C29_FetchesWithinCap ==
    concurrency > 0 => Cardinality(OpenFetches) <= concurrency

\* ---- C30 -----------------------------------------------------------------
\* task i is out of the store and some caller awaits its slot
AwaitedDetached(i) == ~InStore(i) /\ followers(tasks[i]) >= 1

\* C30: a caller awaiting the slot of a task whose fingerprint was deleted or
\* replaced while it ran receives that task's outcome: the task keeps its
\* readers and takes none of the replacement's, its slot settles through its
\* own fetch, its own future or the timeout on it and in no other step, and the
\* outcome, once there, stays.
C30_Step ==
    \A i \in DOMAIN tasks :
        AwaitedDetached(i) =>
            /\ followers(tasks'[i]) = followers(tasks[i])
            /\ tasks[i].promise # 0 => tasks'[i].promise = tasks[i].promise
            /\ (tasks[i].promise = 0 /\ tasks'[i].promise # 0) =>
                   \/ tasks[i].fetchSt = 1 /\ tasks'[i].fetchSt = 2
                   \/ tasks[i].fetchSt = 1 /\ tasks'[i].promise = TimeoutError
                   \/ tasks[i].feed = "future"

C30_AwaitersKeepSlot == [][C30_Step]_vars

\* a task replaced while it ran, awaited, rejected by its own fetch while the
\* task that replaced it resolved
C30_Witness ==
    /\ Len(tasks) = 2
    /\ taskMap[tasks[1].input] = 2
    /\ followers(tasks[1]) >= 1
    /\ tasks[2].createdAt < tasks[1].resolvedAt
    /\ tasks[1].promise = FetchError
    /\ tasks[2].promise \in Values

\* ---- C31 ------------------------------------------------------------------
\* C31: consume is idempotent and safe under recursive invocation: a second
\* consume with no status change in between starts nothing further, and a
\* get whose fetch function reads the cacher synchronously (a nested consume
\* inside the outer one) invokes no fetch function twice in the call and
\* raises no error.
Started(s) == {i \in DOMAIN s.tasks : isLiberated(s.tasks[i])}

C31_ConsumeTwice ==
    /\ consume(consume(Cur)) = consume(Cur)
    /\ NestedConsume(NestedConsume(Cur).s).s = NestedConsume(Cur).s

C31_GetStep(k) ==
    /\ ~NestedGet(Cur, k, FALSE).raised
    /\ \A i \in DOMAIN tasks' :
          tasks'[i].fetchCalls <=
             (IF i \in DOMAIN tasks THEN tasks[i].fetchCalls ELSE 0) + 1

C31_NestedSafe ==
    /\ [](C31_ConsumeTwice)
    /\ [][\A k \in Keys : GetNested(k, FALSE) => C31_GetStep(k)]_vars

\* ---- C32 ------------------------------------------------------------------
\* C32: run is idempotent: a run on a started task changes nothing, and over
\* a task's whole lifetime its fetch function is invoked at most once.
C32_RunOnce ==
    \A i \in DOMAIN tasks :
        /\ isLiberated(tasks[i]) => run(tasks[i]) = tasks[i]
        /\ isLiberated(tasks[i]) => NestedRun(Cur, i).s = Cur
        /\ tasks[i].fetchCalls <= 1

\* ---- C33 ------------------------------------------------------------------
\* a get of k has been answered by a task whose fetch was rejected
RejectedRead(k) ==
    \E i \in DOMAIN tasks :
        /\ tasks[i].input = k
        /\ tasks[i].promise = FetchError
        /\ tasks[i].usedCount >= 1

\* C33: under IGNORE, once a get(k) has rejected with a fetch error, every
\* later get(k) installs a new task and invokes the fetch function again.
C33_IgnoreRefetches ==
    [][\A k \in Keys :
          (errorTaskPolicy = "IGNORE" /\ RejectedRead(k) /\ Get(k, FALSE)) =>
              Refetched(k)]_vars

\* ---- C34 ------------------------------------------------------------------
\* C34: a task whose status is ACTIVE, FAILED or EXPIRED has its fetch-start
\* time and its resolution time set; a task not admitted or not settled never
\* reports EXPIRED.
C34_SettledStatuses ==
    \A i \in DOMAIN tasks :
        status(tasks[i]) \in {"ACTIVE", "FAILED", "EXPIRED"} =>
            /\ tasks[i].liberatedAt # 0
            /\ tasks[i].resolvedAt # 0

\* ---- C36 ------------------------------------------------------------------
\* a task of the store whose fetch was rejected and whose reactions have run,
\* with error caching enabled
SettledFailure(i) ==
    /\ errorTaskPolicy = "CACHE"
    /\ InStore(i)
    /\ tasks[i].promise \in Errors
    /\ tasks[i].taskError # 0
    /\ tasks[i].resolvedAt # 0

\* the step takes task i out of the store by an operation on its key
RemovedByCall(i) ==
    LET k == tasks[i].input
    IN \/ Delete(k)
       \/ Clear
       \/ Get(k, TRUE)
       \/ \E kind \in {"none", "null", "value", "error", "future"},
             v \in Values \cup Errors \cup {0} : Set(k, kind, v)
       \/ isExpired(tasks[i]) /\ (Flush \/ Get(k, FALSE))

C36_KeptStep ==
    \A i \in DOMAIN tasks :
        (SettledFailure(i) /\ taskMap'[tasks[i].input] # i) => RemovedByCall(i)

Runnable(i) ==
    /\ i \in QueuedIds(Cur)
    /\ tasks[i].fetchSt = 0
    /\ tasks[i].promise = 0

\* the task's fetch or supplied future is in flight
Underway(i) ==
    /\ status(tasks[i]) = "AWAIT"
    /\ tasks[i].promise = 0
    /\ tasks[i].fetchSt = 1 \/ tasks[i].feed = "future"

\* the slot is settled; the status follows the reactions
Concluded(i) ==
    /\ isLiberated(tasks[i])
    /\ tasks[i].promise # 0
    /\ tasks[i].resolvedAt = 0 => status(tasks[i]) \in {"AWAIT", "FAILED"}
    /\ tasks[i].resolvedAt # 0 => status(tasks[i]) \in {"ACTIVE", "FAILED", "EXPIRED"}

\* C35: after a fingerprint error, a rejected fetch, a fetch function that
\* throws or a timeout, every task the store holds is runnable by the
\* scheduler, has its fetch in flight, or is settled; a call that raises on
\* the fingerprint installs nothing.
C35_NoHalfBuilt ==
    /\ \A i \in TasksOf(Cur) : Runnable(i) \/ Underway(i) \/ Concluded(i)
    /\ \A f \in BOOLEAN :
          LET r == NestedGet(Cur, BadInput, f)
          IN r.raised /\ r.s.taskMap = taskMap /\ r.s.tasks = tasks
    /\ \A k \in Keys :
          LET r == NestedGet(Cur, k, TRUE)
          IN r.raised => /\ r.s.taskMap[k] = Len(r.s.tasks)
                         /\ status(r.s.tasks[r.s.taskMap[k]]) = "QUEUED"

\* the fetch function of key 1 threw and left its task queued in the store,
\* beside a task that timed out
C35_Witness ==
    \E i, j \in TasksOf(Cur) :
        /\ tasks[i].input = 1
        /\ tasks[i].fetchCalls >= 1
        /\ Runnable(i)
        /\ tasks[j].promise = TimeoutError
        /\ metrics.usedCount > metrics.totalFetchCount + 1

\* ---- C37 ------------------------------------------------------------------
\* the task set installed for k
Installed(k) == tasks'[taskMap'[k]]

SetInstalls(k) ==
    /\ Len(tasks') = Len(tasks) + 1
    /\ taskMap'[k] = Len(tasks')

\* only the step of its own future settles a task built on a future, and a
\* task built with no value starts through the fetch function
C37_Step ==
    /\ \A k \in Keys :
          Set(k, "future", 0) =>
              /\ SetInstalls(k)
              /\ status(Installed(k)) = "AWAIT"
              /\ Installed(k).feed = "future"
              /\ Installed(k).fetchCalls = 0
    /\ \A k \in Keys :
          Set(k, "none", 0) =>
              /\ SetInstalls(k)
              /\ Installed(k).feed # "future"
              /\ status(Installed(k)) = IF FetchStarts(taskMap'[k]) THEN "AWAIT" ELSE "QUEUED"
              /\ Installed(k).fetchCalls = IF FetchStarts(taskMap'[k]) THEN 1 ELSE 0
    /\ \A i \in DOMAIN tasks :
          /\ (tasks[i].feed = "future" /\ tasks'[i].promise # tasks[i].promise) =>
                \E o \in Values : FutureSettle(i, o)
          /\ (tasks[i].liberatedAt = 0 /\ tasks'[i].liberatedAt # 0) =>
                /\ FetchStarts(i)
                /\ tasks'[i].feed = "fetch"
                /\ tasks'[i].fetchCalls = 1

\* C37: set(k, f) with a pending future puts the task in the running status
\* at once, the task is settled by f and its fetch function is never invoked;
\* set(k) with no value leaves the task queued until the scheduler admits it,
\* and it then runs through the fetch function.
C37_FutureRuns ==
    /\ [](\A i \in DOMAIN tasks :
            /\ tasks[i].feed = "future" =>
                  /\ tasks[i].fetchCalls = 0
                  /\ tasks[i].fetchSt = 0
                  /\ isLiberated(tasks[i])
            /\ tasks[i].feed = "fetch" <=> tasks[i].fetchCalls = 1)
    /\ [][C37_Step]_vars

\* a pending future holds the only slot while a task set without a value
\* waits in the queue
C37_Witness ==
    \E i, j \in TasksOf(Cur) :
        /\ concurrency = 1
        /\ tasks[i].feed = "future"
        /\ tasks[i].promise = 0
        /\ status(tasks[i]) = "AWAIT"
        /\ tasks[j].feed = "none"
        /\ status(tasks[j]) = "QUEUED"
        /\ metrics.totalFetchCount = 0

\* ---- C38 ------------------------------------------------------------------
\* the tasks the step takes out of the store
Gone == {i \in TasksOf(Cur) : taskMap'[tasks[i].input] # i}

C38_Step ==
    IF Clear THEN metrics'.releasedMemoryBytes = 0
    ELSE metrics'.releasedMemoryBytes = metrics.releasedMemoryBytes + BytesOf(Gone)

\* C38: between two clears every step adds to the released bytes exactly the
\* byte estimates, as they stand at the removal, of the tasks it takes out of
\* the store (by delete, by replacement in set or in a get, by the sweeper or
\* by the release of a failed task), and no step changes the counter
\* otherwise.
C38_ReleasedBytes == [][C38_Step]_vars

\* two resolved tasks removed, both counted
C38_Witness ==
    /\ Len(tasks) = 2
    /\ TasksOf(Cur) = {}
    /\ \A i \in DOMAIN tasks : tasks[i].usedBytes = sizeof(1)
    /\ metrics.releasedMemoryBytes = 2 * sizeof(1)
    /\ metrics.usedCount >= 1

\* ---- C39 ------------------------------------------------------------------
\* the step installs an entry
Installs == Len(tasks') > Len(tasks)

C39_Step ==
    /\ Clear => timer' = 0
    /\ Installs => timer' = 1

\* C39: while the store holds an entry exactly one sweeper interval is armed;
\* clear stops it, the next step that installs an entry arms it again, and
\* there are never two.
C39_OneTimer ==
    /\ [](timer \in {0, 1})
    /\ [](TasksOf(Cur) # {} => timer = 1)
    /\ [][C39_Step]_vars

\* ---- C40 ------------------------------------------------------------------
\* a second completion of the slot of t raises and leaves the slot as it was
Refused(t) ==
    /\ \A v \in Values \cup {Pending} : resolve(t, v) = [t |-> t, raised |-> TRUE]
    /\ \A e \in Errors : reject(t, e) = [t |-> t, raised |-> TRUE]

\* no step changes the completion time or the settled outcome of a slot
C40_Step ==
    \A i \in DOMAIN tasks :
        /\ isLiberated(tasks[i]) => tasks'[i].liberatedAt = tasks[i].liberatedAt
        /\ tasks[i].promise # Pending => tasks'[i].promise = tasks[i].promise

\* C40: a slot is completed once: after its first resolve or reject every
\* further resolve or reject raises and changes neither the outcome its
\* awaiters observe nor the recorded completion time.
C40_WriteOnce ==
    /\ [](\A i \in DOMAIN tasks : isLiberated(tasks[i]) => Refused(tasks[i]))
    /\ [][C40_Step]_vars

\* a slot on which a second resolve was attempted and raised, settled, read at
\* a later clock reading than its completion
C40_Witness ==
    \E i \in DOMAIN tasks :
        /\ tasks[i].fetchCalls = 2
        /\ tasks[i].liberatedAt < now
        /\ tasks[i].promise \in Values
        /\ Refused(tasks[i])

TypeOK ==
    /\ taskMap \in [Keys -> 0..scope.maxTasks]
    /\ Len(tasks) <= scope.maxTasks
    /\ now \in 1..scope.maxTime
====
